---- MODULE Spec2Model ----
(***************************************************************************)
(* A model of fuz.py: the FuzClass attribute router.                       *)
(*                                                                         *)
(* A name is a sequence of one-character strings.  The state is the        *)
(* instance __dict__ of one FuzClass object (entries in insertion order),  *)
(* a record of the last attribute access and its outcome, and the          *)
(* vocabulary of attribute names the client program uses.  An access is    *)
(* either  obj.name = value  (SetAttr)  or  obj.name  (GetAttr).           *)
(***************************************************************************)
EXTENDS Integers, Sequences, FiniteSets, TLC

VARIABLES program, dict, last

vars == <<program, dict, last>>

(***************************************************************************)
(* Bounds and input sets.                                                  *)
(***************************************************************************)

\* Largest number of entries of the instance __dict__ the model explores.
MaxAttrs == 2

\* The values written by the model ("v1" and "v2" stand for two distinct
\* Python objects that are not callable, such as 123 and 456 in the demo).
Values == {"v1", "v2"}

\* What a class attribute of FuzClass holds: a bound method (callable).
Method == "method"

\* The 'no result' of a call that raised, and of a write.
None == "None"

\* The three methods defined in the class body of FuzClass.
n_off_limits == <<"_", "o", "f", "f", "_", "l", "i", "m", "i", "t", "s">>

n_get_name_sound ==
    <<"_", "g", "e", "t", "_", "n", "a", "m", "e", "_", "s", "o", "u", "n", "d">>

n_find_similar_attr ==
    <<"_", "f", "i", "n", "d", "_", "s", "i", "m", "i", "l", "a", "r", "_",
      "a", "t", "t", "r">>

ClassAttrs == {n_off_limits, n_get_name_sound, n_find_similar_attr}

\* The attribute names the model reads and writes.
n_empty == <<>>

n_a == <<"a">>

n__t == <<"_", "t">>

n__at == <<"_", "a", "t">>

n_teh == <<"t", "e", "h">>

n_the == <<"t", "h", "e">>

n_foobar == <<"f", "o", "o", "b", "a", "r">>

n_fubar == <<"f", "u", "b", "a", "r">>

n_fuhbar == <<"f", "u", "h", "b", "a", "r">>

n_ftr == <<"f", "t", "r">>

n_fbr == <<"f", "b", "r">>

n_fttr == <<"f", "t", "t", "r">>

n_Fr == <<"F", "r">>

n_hh == <<"h", "h">>

n_h1 == <<"h", "1">>

NameUniverse ==
    { n_empty, n_a, n__t, n__at, n_off_limits, n_get_name_sound,
      n_find_similar_attr, n_teh, n_the, n_foobar, n_fubar, n_fuhbar,
      n_ftr, n_fbr, n_fttr, n_Fr, n_hh, n_h1 }

\* The names of NameUniverse that _off_limits lets through: the names whose
\* sound the model computes.
EligibleNames ==
    { n_teh, n_the, n_foobar, n_fubar, n_fuhbar, n_ftr, n_fbr, n_fttr, n_Fr,
      n_hh, n_h1 }

\* A client program uses one vocabulary of attribute names: misspellings that
\* differ in their letters, misspellings that sound alike (the demo of
\* fuz.py), or underscore names next to ordinary ones.
Programs == {"letters", "sounds", "underscores"}

Vocabulary(p) ==
    CASE p = "letters" ->
           { n_empty, n_teh, n_the, n_ftr, n_fbr, n_fttr, n_Fr, n_hh, n_h1 }
      [] p = "sounds" ->
           { n_a, n_foobar, n_fubar, n_fuhbar, n_fbr, n_Fr, n_get_name_sound }
      [] p = "underscores" ->
           { n_empty, n_a, n__t, n__at, n_off_limits, n_find_similar_attr,
             n_foobar, n_fubar }

(***************************************************************************)
(* Python strings: code points, comparison, lower().                       *)
(***************************************************************************)

\* ord(c) of the characters that occur in NameUniverse.
Ord ==
    [c \in {"1", "F", "_", "a", "b", "d", "e", "f", "g", "h", "i", "l", "m",
            "n", "o", "r", "s", "t", "u"} |->
        CASE c = "1" -> 49 [] c = "F" -> 70 [] c = "_" -> 95
          [] c = "a" -> 97 [] c = "b" -> 98 [] c = "d" -> 100
          [] c = "e" -> 101 [] c = "f" -> 102 [] c = "g" -> 103
          [] c = "h" -> 104 [] c = "i" -> 105 [] c = "l" -> 108
          [] c = "m" -> 109 [] c = "n" -> 110 [] c = "o" -> 111
          [] c = "r" -> 114 [] c = "s" -> 115 [] c = "t" -> 116
          [] c = "u" -> 117]

\* str.__lt__: lexicographic by code point, a proper prefix sorts first.  k is
\* the first position at which x ends or differs from y.
StrLess(x, y) ==
    \E k \in 1..Len(y) :
        /\ \A j \in 1..(k - 1) : j <= Len(x) /\ x[j] = y[j]
        /\ \/ k > Len(x)
           \/ Ord[x[k]] < Ord[y[k]]

\* sorted(NameUniverse), computed once: each name at the position given by
\* the number of names that sort before it.
SortedUniverse ==
    [i \in 1..Cardinality(NameUniverse) |->
        CHOOSE x \in NameUniverse :
            Cardinality({y \in NameUniverse : StrLess(y, x)}) = i - 1]

\* sorted(S) for a set S of names of the model: the names of S in the order
\* they have in sorted(NameUniverse).
sorted(S) == SelectSeq(SortedUniverse, LAMBDA n : n \in S)

\* str.lower() on one character, and on a name.
LowerChar(c) == IF c = "F" THEN "f" ELSE c

lower(name) == [i \in 1..Len(name) |-> LowerChar(name[i])]

(***************************************************************************)
(* The object: instance __dict__ and class attributes.                     *)
(***************************************************************************)

\* The keys of the instance __dict__, in insertion order.
Keys(self) == [i \in 1..Len(self) |-> self[i].name]

KeySet(self) == {self[i].name : i \in 1..Len(self)}

\* self.__dict__[name]
DictGet(self, name) ==
    self[CHOOSE i \in 1..Len(self) : self[i].name = name].value

\* object.__getattribute__(self, name): the instance __dict__ first, then the
\* class; AttributeError when neither has the name.
object_getattribute(self, name) ==
    IF name \in KeySet(self)
      THEN [raised |-> "none", ret |-> DictGet(self, name)]
    ELSE IF name \in ClassAttrs
      THEN [raised |-> "none", ret |-> Method]
    ELSE [raised |-> "AttributeError", ret |-> None]

\* Whether self.<method name> can still be called: an instance attribute of
\* the same name shadows the method with a value that is not callable.
Callable(self, name) == object_getattribute(self, name).ret = Method

\* A variant of dir(self) that lists the instance's names in the order they
\* were defined, as self.__dict__ does.
dir_in_definition_order(self) == Keys(self)

\* dir(self): the names of the instance and of its class, sorted.
dir(self) == sorted(KeySet(self) \cup ClassAttrs)

(***************************************************************************)
(* fuzzy.DMetaphone: the primary Double Metaphone code of a name.  The     *)
(* rules are those of the letters that occur in EligibleNames (names that  *)
(* start with an underscore are never encoded); any other character takes  *)
(* the encoder's default branch and adds nothing.  The encoder works on    *)
(* the upper-cased name, so the rules are stated on lower(name).           *)
(***************************************************************************)

IsVowel(w, i) == i >= 1 /\ i <= Len(w) /\ w[i] \in {"a", "e", "i", "o", "u", "y"}

CharAt(w, i) == IF i >= 1 /\ i <= Len(w) THEN w[i] ELSE ""

RECURSIVE MetaphFrom(_, _)
MetaphFrom(w, i) ==
    IF i > Len(w) THEN <<>>
    ELSE LET c == w[i]
             next == CharAt(w, i + 1)
         IN  CASE IsVowel(w, i) ->
                    \* a vowel is coded "A" at the start of the word only
                    (IF i = 1 THEN <<"A">> ELSE <<>>) \o MetaphFrom(w, i + 1)
               [] c = "b" ->
                    <<"P">> \o MetaphFrom(w, IF next = "b" THEN i + 2 ELSE i + 1)
               [] c = "f" ->
                    <<"F">> \o MetaphFrom(w, IF next = "f" THEN i + 2 ELSE i + 1)
               [] c = "r" ->
                    <<"R">> \o MetaphFrom(w, IF next = "r" THEN i + 2 ELSE i + 1)
               [] c = "h" ->
                    \* kept only at the start or after a vowel, and before a vowel
                    IF (i = 1 \/ IsVowel(w, i - 1)) /\ IsVowel(w, i + 1)
                      THEN <<"H">> \o MetaphFrom(w, i + 2)
                      ELSE MetaphFrom(w, i + 1)
               [] c = "t" ->
                    IF next = "h"
                      THEN (IF CharAt(w, i + 2) \in {"o", "a"} /\ CharAt(w, i + 3) = "m"
                              THEN <<"T">> ELSE <<"0">>) \o MetaphFrom(w, i + 2)
                      ELSE <<"T">> \o
                           MetaphFrom(w, IF next \in {"t", "d"} THEN i + 2 ELSE i + 1)
               [] OTHER -> MetaphFrom(w, i + 1)

\* The encoder stops once the code has four characters.
PrimaryCode(name) ==
    LET code == MetaphFrom(lower(name), 1)
    IN  IF Len(code) > 4 THEN SubSeq(code, 1, 4) ELSE code

\* dmo = fuzzy.DMetaphone(); dmo(name)[0], computed once for each name.
DMetaphone == [name \in EligibleNames |-> PrimaryCode(name)]

(***************************************************************************)
(* FuzClass.                                                               *)
(***************************************************************************)

\* name[0] == "_" or len(name) < 2.  name[0] is evaluated first and raises
\* IndexError when name is the empty string.
_off_limits(name) ==
    IF Len(name) = 0
      THEN [raised |-> "IndexError", ret |-> FALSE]
      ELSE [raised |-> "none", ret |-> (name[1] = "_" \/ Len(name) < 2)]

\* The decoded primary code of the name.
_get_name_sound(name) == DMetaphone[name]

\* [a for a in dir(self) if not self._off_limits(a)]
existing_attrs(self) ==
    SelectSeq(dir(self), LAMBDA a : ~_off_limits(a).ret)

\* set(s[1:-1])
inner_letters(s) == {s[i] : i \in 2..(Len(s) - 1)}

\* specified_inner_letters.symmetric_difference(attr_inner_letters)
different_inner_letters(attr_lower, name_lower) ==
    (inner_letters(name_lower) \ inner_letters(attr_lower))
        \cup (inner_letters(attr_lower) \ inner_letters(name_lower))

\* A variant of the condition that lets every letter after the first one be
\* jumbled: it compares the letters of s[1:] and not the last letters.
SimilarSpellingAnyJumble(attr_lower, name_lower) ==
    \/ attr_lower = name_lower
    \/ /\ attr_lower[1] = name_lower[1]
       /\ Cardinality(
              ({name_lower[i] : i \in 2..Len(name_lower)}
                   \ {attr_lower[i] : i \in 2..Len(attr_lower)})
              \cup ({attr_lower[i] : i \in 2..Len(attr_lower)}
                       \ {name_lower[i] : i \in 2..Len(name_lower)})) < 2

\* A variant of the condition that wants the same set of inner letters
\* (len(different_inner_letters) < 1).
SimilarSpellingSameLetters(attr_lower, name_lower) ==
    \/ attr_lower = name_lower
    \/ /\ attr_lower[1] = name_lower[1]
       /\ attr_lower[Len(attr_lower)] = name_lower[Len(name_lower)]
       /\ Cardinality(different_inner_letters(attr_lower, name_lower)) < 1

\* The condition of the first loop: equal ignoring capitalization, or same
\* first and last letter and fewer than two different inner letters.
SimilarSpelling(attr_lower, name_lower) ==
    \/ attr_lower = name_lower
    \/ /\ attr_lower[1] = name_lower[1]
       /\ attr_lower[Len(attr_lower)] = name_lower[Len(name_lower)]
       /\ Cardinality(different_inner_letters(attr_lower, name_lower)) < 2

\* for i, attr_lower in enumerate(existing_attrs_lower): the position the
\* first loop returns at, counted from position i on; 0 when it runs out.
RECURSIVE spelling_loop(_, _, _)
spelling_loop(existing, name_lower, i) ==
    IF i > Len(existing) THEN 0
    ELSE IF SimilarSpelling(lower(existing[i]), name_lower) THEN i
    ELSE spelling_loop(existing, name_lower, i + 1)

\* A variant of the second loop that never finds a name.
sound_loop_never(existing, name_sound, i) == 0

\* for attr in existing_attrs: the position the second loop returns at,
\* counted from position i on; 0 when it runs out.
RECURSIVE sound_loop(_, _, _)
sound_loop(existing, name_sound, i) ==
    IF i > Len(existing) THEN 0
    ELSE IF _get_name_sound(existing[i]) = name_sound THEN i
    ELSE sound_loop(existing, name_sound, i + 1)

Raise(error) == [raised |-> error, ret |-> <<>>, pass |-> "raised"]

Return(name, pass) == [raised |-> "none", ret |-> name, pass |-> pass]

\* self._find_similar_attr(name).  'pass' records where the result comes from:
\* "guard" (an off-limits name), "spelling" (the first loop), "sound" (the
\* second loop) or "nothing" (the final return name).
_find_similar_attr(self, name) ==
    IF ~Callable(self, n_off_limits) THEN Raise("TypeError")
    ELSE IF _off_limits(name).raised # "none" THEN Raise(_off_limits(name).raised)
    ELSE IF _off_limits(name).ret THEN Return(name, "guard")
    ELSE IF \E a \in KeySet(self) : _off_limits(a).raised # "none"
      THEN Raise("IndexError")
    ELSE LET existing == existing_attrs(self)
             spelled == spelling_loop(existing, lower(name), 1)
             name_sound == _get_name_sound(name)
             sounded == sound_loop(existing, name_sound, 1)
         IN  IF spelled # 0 THEN Return(existing[spelled], "spelling")
             ELSE IF ~Callable(self, n_get_name_sound) THEN Raise("TypeError")
             ELSE IF name_sound # <<>> /\ sounded # 0
               THEN Return(existing[sounded], "sound")
             ELSE Return(name, "nothing")

\* object.__setattr__(self, name, value): overwrite the entry of the instance
\* __dict__, or add one at the end.
object_setattr(self, name, value) ==
    IF name \in KeySet(self)
      THEN [i \in 1..Len(self) |->
               IF self[i].name = name THEN [name |-> name, value |-> value]
               ELSE self[i]]
      ELSE Append(self, [name |-> name, value |-> value])

\* A variant of __setattr__ that writes under the name as given, not under
\* the name _find_similar_attr returned.
setattr_given_name(self, name, value) ==
    LET found == _find_similar_attr(self, name)
    IN  IF found.raised # "none"
          THEN [raised |-> found.raised, self |-> self,
                new_name |-> <<>>, pass |-> "raised"]
          ELSE [raised |-> "none",
                self |-> object_setattr(self, name, value),
                new_name |-> found.ret, pass |-> found.pass]

\* A variant of __setattr__ that writes under the name _find_similar_attr
\* returned and under the name as given.
setattr_both_names(self, name, value) ==
    LET found == _find_similar_attr(self, name)
    IN  IF found.raised # "none"
          THEN [raised |-> found.raised, self |-> self,
                new_name |-> <<>>, pass |-> "raised"]
          ELSE [raised |-> "none",
                self |-> object_setattr(
                             object_setattr(self, found.ret, value), name, value),
                new_name |-> found.ret, pass |-> found.pass]

\* obj.name = value
__setattr__(self, name, value) ==
    IF ~Callable(self, n_find_similar_attr)
      THEN [raised |-> "TypeError", self |-> self, new_name |-> <<>>,
            pass |-> "raised"]
    ELSE LET found == _find_similar_attr(self, name)
         IN  IF found.raised # "none"
               THEN [raised |-> found.raised, self |-> self,
                     new_name |-> <<>>, pass |-> "raised"]
               ELSE [raised |-> "none",
                     self |-> object_setattr(self, found.ret, value),
                     new_name |-> found.ret, pass |-> found.pass]

\* FuzClass.__getattr__(self, name), which Python calls only after the normal
\* lookup of name has failed.
__getattr__(self, name) ==
    IF ~Callable(self, n_find_similar_attr)
      THEN [raised |-> "TypeError", ret |-> None, new_name |-> <<>>,
            pass |-> "raised"]
    ELSE LET found == _find_similar_attr(self, name)
         IN  IF found.raised # "none"
               THEN [raised |-> found.raised, ret |-> None,
                     new_name |-> <<>>, pass |-> "raised"]
             ELSE IF found.ret = name
               THEN [raised |-> "AttributeError", ret |-> None,
                     new_name |-> found.ret, pass |-> found.pass]
             ELSE [raised |-> object_getattribute(self, found.ret).raised,
                   ret |-> object_getattribute(self, found.ret).ret,
                   new_name |-> found.ret, pass |-> found.pass]

\* obj.name: the normal lookup, and __getattr__ when it fails.
getattr(self, name) ==
    IF object_getattribute(self, name).raised = "none"
      THEN [raised |-> "none", ret |-> object_getattribute(self, name).ret,
            new_name |-> name, pass |-> "direct"]
      ELSE __getattr__(self, name)

(***************************************************************************)
(* The state machine.                                                      *)
(***************************************************************************)

\* m = MyTest(): no instance attributes.
Init ==
    /\ program \in Programs
    /\ dict = <<>>
    /\ last = [op |-> "new", name |-> <<>>, arg |-> None, raised |-> "none",
               ret |-> None, new_name |-> <<>>, pass |-> "raised"]

\* m.<name> = value
SetAttr(name, value) ==
    \E done \in {__setattr__(dict, name, value)} :
        /\ Len(done.self) <= MaxAttrs
        /\ dict' = done.self
        /\ last' = [op |-> "set", name |-> name, arg |-> value,
                    raised |-> done.raised, ret |-> None,
                    new_name |-> done.new_name, pass |-> done.pass]
        /\ UNCHANGED program

\* m.<name>
GetAttr(name) ==
    \E got \in {getattr(dict, name)} :
        /\ dict' = dict
        /\ last' = [op |-> "get", name |-> name, arg |-> None,
                    raised |-> got.raised, ret |-> got.ret,
                    new_name |-> got.new_name, pass |-> got.pass]
        /\ UNCHANGED program

Set == \E name \in Vocabulary(program), value \in Values : SetAttr(name, value)

Get == \E name \in Vocabulary(program) : GetAttr(name)

Next == Set \/ Get

Spec == Init /\ [][Next]_vars

(***************************************************************************)
(* The properties.  The words of the properties (off-limits, jumble rule,  *)
(* phonetic code) are defined here on their own, apart from the operators  *)
(* above that model the code.                                              *)
(***************************************************************************)

\* A name of length < 2, or one that starts with the underscore.
OffLimitsName(n) == Len(n) < 2 \/ n[1] = "_"

\* The set of characters strictly between the first and the last one.
inner(n) == {lower(n)[i] : i \in 2..(Len(n) - 1)}

\* The same first and the same last letter, ignoring case.
SameAnchors(e, c) ==
    /\ lower(e)[1] = lower(c)[1]
    /\ lower(e)[Len(e)] = lower(c)[Len(c)]

\* The jumble rule: same anchors, and fewer than 2 letters in the symmetric
\* difference of the interiors.
JumbleRule(e, c) ==
    /\ SameAnchors(e, c)
    /\ Cardinality((inner(e) \ inner(c)) \cup (inner(c) \ inner(e))) < 2

\* The same non-empty phonetic code.
SameSound(e, c) == DMetaphone[e] # <<>> /\ DMetaphone[e] = DMetaphone[c]

\* The properties stored on the object that are not off-limits.
StoredEligible == {n \in KeySet(dict) : ~OffLimitsName(n)}

\* The last access ran the two passes over the existing names.
RanPasses == last.pass \in {"spelling", "sound", "nothing"}

\* C1: a write set(b, v2) that one of the two passes resolves to the existing
\* property a leaves the set of stored names as it was, stores v2 under a
\* (get(a) returns v2), and creates no property named b.
C1_OverwriteLaw ==
    [][ (last'.op = "set" /\ last'.pass \in {"spelling", "sound"}) =>
            /\ last'.new_name \in KeySet(dict)
            /\ KeySet(dict') = KeySet(dict)
            /\ getattr(dict', last'.new_name).raised = "none"
            /\ getattr(dict', last'.new_name).ret = last'.arg
            /\ (last'.name # last'.new_name => last'.name \notin KeySet(dict')) ]_vars

\* The demo: after foobar was set, fuhbar = v2 was written to foobar, the only
\* property.
C1_Witness ==
    /\ last.op = "set" /\ last.name = n_fuhbar /\ last.arg = "v2"
    /\ last.pass = "sound" /\ last.new_name = n_foobar
    /\ Keys(dict) = <<n_foobar>>

\* C2: get(name) raises the missing-property error exactly when the resolved
\* name is the requested one and no property of that name is stored; in every
\* other case it raises nothing and returns the value stored under the
\* resolved name.
C2_GetRaisesOnlyMissing ==
    last.op = "get" =>
        LET stored == KeySet(dict) \cup ClassAttrs
            missing == last.new_name = last.name /\ last.name \notin stored
        IN  /\ missing => last.raised = "AttributeError"
            /\ ~missing =>
                  /\ last.raised = "none"
                  /\ last.ret = object_getattribute(dict, last.new_name).ret

\* C3: set(name, value) raises nothing and stores value under the resolved
\* name, for every name.
C3_SetNeverRaises ==
    last.op = "set" =>
        /\ last.raised = "none"
        /\ last.new_name \in KeySet(dict)
        /\ DictGet(dict, last.new_name) = last.arg

\* C4: the resolution of an off-limits name (length < 2, or underscore
\* prefix) fails in no case and returns the name itself.
C4_GuardShortCircuit ==
    (last.op = "set" /\ OffLimitsName(last.name)) =>
        /\ last.raised = "none"
        /\ last.new_name = last.name

\* The stored eligible names that satisfy the orthographic pass for the name
\* of the last access, which the spelling pass resolved.
SpelledLike == {e \in StoredEligible : JumbleRule(e, last.name)}

\* The position of a stored name in the order of definition.
DefinedAt(e) == CHOOSE i \in 1..Len(dict) : dict[i].name = e

C6_ReadYourWrites ==
    (last.op = "set" /\ last.name # <<>>) =>
        /\ last.raised = "none"
        /\ getattr(dict, last.name).raised = "none"
        /\ getattr(dict, last.name).ret = last.arg

\* C7 as stated: on an object whose only property is teh, set from the fresh
\* object, get(the) is resolved by the orthographic pass to teh and returns
\* its value.
C7_TehThe ==
    (last.op = "get" /\ last.name = n_the /\ Keys(dict) = <<n_teh>>) =>
        /\ last.raised = "none"
        /\ last.pass = "spelling"
        /\ last.new_name = n_teh
        /\ last.ret = dict[1].value

\* C7 as amended: on an object whose only property is teh, get(the) is not
\* resolved by the orthographic pass (the last letters, h and e, differ, and
\* so do the interiors, {e} and {h}) nor by the phonetic pass (the codes are T
\* and 0), and raises the missing-property error.
C7_TehTheMissing ==
    (last.op = "get" /\ last.name = n_the /\ Keys(dict) = <<n_teh>>) =>
        /\ ~JumbleRule(n_teh, n_the)
        /\ last.pass = "nothing"
        /\ last.new_name = n_the
        /\ last.raised = "AttributeError"

\* get(the) right after set(teh, v1) on the fresh object.
C7_Witness ==
    /\ last.op = "get" /\ last.name = n_the
    /\ dict = <<[name |-> n_teh, value |-> "v1"]>>

\* One letter type of the interior of c is not in e's, or the reverse, or one
\* letter type of e's interior is replaced in c's by a letter not in e's.
OneInserted(e, c) == \E x \in inner(c) \ inner(e) : inner(c) = inner(e) \cup {x}

OneDeleted(e, c) == \E x \in inner(e) \ inner(c) : inner(c) = inner(e) \ {x}

OneSubstituted(e, c) ==
    \E x \in inner(e), y \in inner(c) \ inner(e) :
        inner(c) = (inner(e) \ {x}) \cup {y}

\* C8 as stated: the orthographic pass matches an existing eligible name with
\* the candidate's anchors whenever the candidate's interior has one letter
\* type inserted, deleted or substituted.
C8_JumbleWithSubstitution ==
    (last.op = "get" /\ RanPasses) =>
        \A e \in StoredEligible :
            (/\ SameAnchors(e, last.name)
             /\ \/ OneInserted(e, last.name)
                \/ OneDeleted(e, last.name)
                \/ OneSubstituted(e, last.name))
            => last.pass = "spelling"

\* C8 as amended: the orthographic pass matches an existing eligible name with
\* the candidate's anchors whenever the candidate's interior has the same
\* letter types, or one letter type inserted or deleted.
C8_JumbleInsertDelete ==
    (last.op = "get" /\ RanPasses) =>
        \A e \in StoredEligible :
            (/\ SameAnchors(e, last.name)
             /\ \/ inner(e) = inner(last.name)
                \/ OneInserted(e, last.name)
                \/ OneDeleted(e, last.name))
            => last.pass = "spelling"

\* A get that the spelling pass resolved, of a name with one interior letter
\* type less than a stored name with the same anchors.
C8_Witness ==
    /\ last.op = "get" /\ last.pass = "spelling"
    /\ \E e \in StoredEligible :
           SameAnchors(e, last.name) /\ OneDeleted(e, last.name)

Orderings(S) ==
    {o \in [1..Cardinality(S) -> S] : \A x \in S : \E i \in DOMAIN o : o[i] = x}

====
